---- MODULE Spec2Model ----
(***************************************************************************)
(* Email Monitor API (src/app.py): the two read routes /dashboard and      *)
(* /sent_details, the paginated Gmail listing helpers they drive, the      *)
(* date-range query builder and the per-message detail extraction.         *)
(*                                                                         *)
(* Strings the program inspects character by character (dates, base64      *)
(* payloads) are sequences of one-character strings; decoded text is a     *)
(* sequence of code points.  A Python dict is a TLA+ record whose DOMAIN   *)
(* holds exactly the keys that are present.                                *)
(***************************************************************************)
EXTENDS Integers, Sequences, FiniteSets, TLC

VARIABLES
    entry,          \* the entry point being executed
    args,           \* request.args: a dict with the supplied query parameters
    pc,             \* position of the handler
    date_q,         \* dashboard/sent_details: date_q
    run,            \* which listing invocation is active
    total,          \* count_messages: total
    page_token,     \* the listing loops: page_token
    resp,           \* the listing loops: resp
    pending,        \* get_sent_email_details: messages of resp not yet fetched
    message,        \* get_sent_email_details: message
    email_details,  \* get_sent_email_details: email_details
    sent_count,     \* dashboard: sent_count
    ret,            \* return value of a directly called helper
    response,       \* the HTTP response of the handler
    calls,          \* every provider call issued, in order
    pages,          \* every listing response received, in order
    fetched,        \* every message a get call returned, in order
    printed,        \* the lines print() wrote, in order
    raised          \* the exception the handler caught, if any

vars == << entry, args, pc, date_q, run, total, page_token, resp, pending,
           message, email_details, sent_count, ret, response, calls, pages,
           fetched, printed, raised >>

\* Python's None, for the string-valued variables.
None == "<None>"

(***************************************************************************)
(* Text helpers                                                            *)
(***************************************************************************)
Digits == << "0", "1", "2", "3", "4", "5", "6", "7", "8", "9" >>

IsDigit(c) == \E i \in 1..10 : Digits[i] = c

DigitVal(c) == (CHOOSE i \in 1..10 : Digits[i] = c) - 1

DigitChar(n) == Digits[n + 1]

\* %m and %d of strftime: two digits, zero padded.
TwoDigits(n) == << DigitChar(n \div 10), DigitChar(n % 10) >>

FourDigits(n) ==
    << DigitChar(n \div 1000), DigitChar((n \div 100) % 10),
       DigitChar((n \div 10) % 10), DigitChar(n % 10) >>

\* The decimal numeral of n >= 0 without padding.
RECURSIVE Decimal(_)
Decimal(n) == IF n < 10 THEN << DigitChar(n) >>
              ELSE Decimal(n \div 10) \o << DigitChar(n % 10) >>

(***************************************************************************)
(* datetime.date                                                           *)
(***************************************************************************)
MINYEAR == 1
MAXYEAR == 9999

IsLeap(y) == (y % 4 = 0) /\ ((y % 100 # 0) \/ (y % 400 = 0))

DaysInMonth(y, m) ==
    IF m = 2 THEN (IF IsLeap(y) THEN 29 ELSE 28)
    ELSE IF m \in {4, 6, 9, 11} THEN 30 ELSE 31

\* date(y, m, d) is constructible.
ValidDate(y, m, d) ==
    /\ y >= MINYEAR /\ y <= MAXYEAR
    /\ m >= 1 /\ m <= 12
    /\ d >= 1 /\ d <= DaysInMonth(y, m)

\* Exceptions are records; ok values are records with raise = None.
Raise(kind, msg) == [raise |-> kind, msg |-> msg]

\* %m of strptime: 1[0-2] | 0[1-9] | [1-9], the alternatives in regex order,
\* each as <<value, position after it>>, at position p of s.
MonthMatches(s, p) ==
    LET two == IF /\ p + 1 <= Len(s) /\ IsDigit(s[p]) /\ IsDigit(s[p + 1])
                  /\ \/ s[p] = "1" /\ DigitVal(s[p + 1]) <= 2
                     \/ s[p] = "0" /\ DigitVal(s[p + 1]) >= 1
               THEN << << 10 * DigitVal(s[p]) + DigitVal(s[p + 1]), p + 2 >> >>
               ELSE << >>
        one == IF p <= Len(s) /\ IsDigit(s[p]) /\ DigitVal(s[p]) >= 1
               THEN << << DigitVal(s[p]), p + 1 >> >>
               ELSE << >>
    IN  two \o one

\* %d of strptime: 3[01] | [12]\d | 0[1-9] | [1-9] | " "[1-9].
DayMatches(s, p) ==
    LET two == IF /\ p + 1 <= Len(s) /\ IsDigit(s[p]) /\ IsDigit(s[p + 1])
                  /\ \/ s[p] = "3" /\ DigitVal(s[p + 1]) <= 1
                     \/ s[p] \in {"1", "2"}
                     \/ s[p] = "0" /\ DigitVal(s[p + 1]) >= 1
               THEN << << 10 * DigitVal(s[p]) + DigitVal(s[p + 1]), p + 2 >> >>
               ELSE << >>
        one == IF p <= Len(s) /\ IsDigit(s[p]) /\ DigitVal(s[p]) >= 1
               THEN << << DigitVal(s[p]), p + 1 >> >>
               ELSE << >>
        spc == IF /\ p + 1 <= Len(s) /\ s[p] = " " /\ IsDigit(s[p + 1])
                  /\ DigitVal(s[p + 1]) >= 1
               THEN << << DigitVal(s[p + 1]), p + 2 >> >>
               ELSE << >>
    IN  two \o one \o spc

\* datetime.strptime(s, "%Y-%m-%d").date(): the date <<y, m, d>> or a
\* ValueError.  The regex is matched at the start of s, the month backtracks
\* to its next alternative when no "-" follows, and text left over after the
\* day is an error.
Strptime(s) ==
    LET bad == Raise("ValueError", "strptime")
    IN  IF ~ (/\ Len(s) >= 5
              /\ \A i \in 1..4 : IsDigit(s[i])
              /\ s[5] = "-")
        THEN bad
        ELSE
          LET y  == 1000 * DigitVal(s[1]) + 100 * DigitVal(s[2])
                    + 10 * DigitVal(s[3]) + DigitVal(s[4])
              ms == SelectSeq(MonthMatches(s, 6),
                        LAMBDA c : c[2] <= Len(s) /\ s[c[2]] = "-")
          IN  IF ms = << >> THEN bad
              ELSE
                LET m  == ms[1][1]
                    ds == DayMatches(s, ms[1][2] + 1)
                IN  IF ds = << >> THEN bad
                    ELSE IF ds[1][2] # Len(s) + 1 THEN bad
                    ELSE IF ~ ValidDate(y, m, ds[1][1]) THEN bad
                    ELSE [raise |-> None, date |-> << y, m, ds[1][1] >>]

\* The C libraries strftime may run on: glibc writes %Y without padding,
\* the others pad it to four digits.
Libcs == {"glibc", "padding"}

\* date.strftime('%Y/%m/%d')
Strftime(dt, libc) ==
    (IF libc = "glibc" THEN Decimal(dt[1]) ELSE FourDigits(dt[1]))
        \o << "/" >> \o TwoDigits(dt[2]) \o << "/" >> \o TwoDigits(dt[3])

\* The inclusive end taken as the bound, no day added.
PlusOneDaySame(dt) == [raise |-> None, date |-> dt]

\* date + timedelta(days=1): the next calendar day, OverflowError past
\* date.max.
PlusOneDay(dt) ==
    IF dt[3] < DaysInMonth(dt[1], dt[2])
    THEN [raise |-> None, date |-> << dt[1], dt[2], dt[3] + 1 >>]
    ELSE IF dt[2] < 12
    THEN [raise |-> None, date |-> << dt[1], dt[2] + 1, 1 >>]
    ELSE IF dt[1] < MAXYEAR
    THEN [raise |-> None, date |-> << dt[1] + 1, 1, 1 >>]
    ELSE Raise("OverflowError", "date value out of range")

\* dt1 < dt2 on dates.
DateLess(a, b) ==
    \/ a[1] < b[1]
    \/ a[1] = b[1] /\ a[2] < b[2]
    \/ a[1] = b[1] /\ a[2] = b[2] /\ a[3] < b[3]

\* build_date_query(start, end) on libc: the query text or the exception.
build_date_query(start_yyyy_mm_dd, end_yyyy_mm_dd, libc) ==
    LET start_dt == Strptime(start_yyyy_mm_dd)
        end_dt   == Strptime(end_yyyy_mm_dd)
    IN  IF start_dt.raise # None \/ end_dt.raise # None
        THEN Raise("ValueError", "Dates must be in YYYY-MM-DD format")
        ELSE IF DateLess(end_dt.date, start_dt.date)
        THEN Raise("ValueError", "End date must be on or after start date")
        ELSE
          LET before_exclusive == PlusOneDay(end_dt.date)
          IN  IF before_exclusive.raise # None THEN before_exclusive
              ELSE [raise |-> None,
                    value |-> << "after:" >> \o Strftime(start_dt.date, libc)
                              \o << " before:" >>
                              \o Strftime(before_exclusive.date, libc)]

(***************************************************************************)
(* base64.urlsafe_b64decode(data).decode('utf-8')                          *)
(***************************************************************************)
\* The standard base64 alphabet, in value order.
B64Alphabet ==
    << "A", "B", "C", "D", "E", "F", "G", "H", "I", "J", "K", "L", "M",
       "N", "O", "P", "Q", "R", "S", "T", "U", "V", "W", "X", "Y", "Z",
       "a", "b", "c", "d", "e", "f", "g", "h", "i", "j", "k", "l", "m",
       "n", "o", "p", "q", "r", "s", "t", "u", "v", "w", "x", "y", "z",
       "0", "1", "2", "3", "4", "5", "6", "7", "8", "9", "+", "/" >>

\* The url-safe alphabet is translated to the standard one first.
UrlsafeTranslate(c) == IF c = "-" THEN "+" ELSE IF c = "_" THEN "/" ELSE c

IsB64(c) == \E i \in 1..64 : B64Alphabet[i] = c

B64Val(c) == (CHOOSE i \in 1..64 : B64Alphabet[i] = c) - 1

\* binascii.a2b_base64 without strict mode: characters outside the alphabet
\* are skipped, a completed pad sequence ends the input, and an incomplete
\* last quad is an error.
RECURSIVE A2bBase64(_, _, _, _, _, _)
A2bBase64(s, i, quad_pos, leftchar, pads, out) ==
    IF i > Len(s)
    THEN IF quad_pos = 0 THEN [raise |-> None, bytes |-> out]
         ELSE IF quad_pos = 1
         THEN Raise("binascii.Error", "Invalid base64-encoded string")
         ELSE Raise("binascii.Error", "Incorrect padding")
    ELSE
      LET c == UrlsafeTranslate(s[i])
      IN  IF c = "="
          THEN IF quad_pos >= 2 /\ quad_pos + pads + 1 >= 4
               THEN [raise |-> None, bytes |-> out]
               ELSE A2bBase64(s, i + 1, quad_pos, leftchar,
                              IF quad_pos >= 2 THEN pads + 1 ELSE pads, out)
          ELSE IF ~ IsB64(c)
          THEN A2bBase64(s, i + 1, quad_pos, leftchar, pads, out)
          ELSE
            LET v == B64Val(c)
            IN  CASE quad_pos = 0 ->
                       A2bBase64(s, i + 1, 1, v, 0, out)
                  [] quad_pos = 1 ->
                       A2bBase64(s, i + 1, 2, v % 16, 0,
                                 Append(out, (leftchar * 4 + v \div 16) % 256))
                  [] quad_pos = 2 ->
                       A2bBase64(s, i + 1, 3, v % 4, 0,
                                 Append(out, (leftchar * 16 + v \div 4) % 256))
                  [] quad_pos = 3 ->
                       A2bBase64(s, i + 1, 0, 0, 0,
                                 Append(out, (leftchar * 64 + v) % 256))

urlsafe_b64decode(data) == A2bBase64(data, 1, 0, 0, 0, << >>)

IsCont(b, i, lo, hi) == i <= Len(b) /\ b[i] >= lo /\ b[i] <= hi

\* bytes.decode('utf-8'), strict: the code points, or UnicodeDecodeError on
\* an invalid start byte, an invalid continuation byte or a short sequence.
RECURSIVE Utf8Decode(_, _, _)
Utf8Decode(b, i, out) ==
    IF i > Len(b) THEN [raise |-> None, text |-> out]
    ELSE
      LET b0  == b[i]
          bad == Raise("UnicodeDecodeError", "'utf-8' codec can't decode")
      IN  IF b0 < 128
          THEN Utf8Decode(b, i + 1, Append(out, b0))
          ELSE IF b0 >= 194 /\ b0 <= 223
          THEN IF IsCont(b, i + 1, 128, 191)
               THEN Utf8Decode(b, i + 2,
                        Append(out, (b0 - 192) * 64 + (b[i + 1] - 128)))
               ELSE bad
          ELSE IF b0 >= 224 /\ b0 <= 239
          THEN IF /\ IsCont(b, i + 1, IF b0 = 224 THEN 160 ELSE 128,
                                      IF b0 = 237 THEN 159 ELSE 191)
                  /\ IsCont(b, i + 2, 128, 191)
               THEN Utf8Decode(b, i + 3,
                        Append(out, (b0 - 224) * 4096 + (b[i + 1] - 128) * 64
                                    + (b[i + 2] - 128)))
               ELSE bad
          ELSE IF b0 >= 240 /\ b0 <= 244
          THEN IF /\ IsCont(b, i + 1, IF b0 = 240 THEN 144 ELSE 128,
                                      IF b0 = 244 THEN 143 ELSE 191)
                  /\ IsCont(b, i + 2, 128, 191)
                  /\ IsCont(b, i + 3, 128, 191)
               THEN Utf8Decode(b, i + 4,
                        Append(out, (b0 - 240) * 262144
                                    + (b[i + 1] - 128) * 4096
                                    + (b[i + 2] - 128) * 64 + (b[i + 3] - 128)))
               ELSE bad
          ELSE bad

\* base64.urlsafe_b64decode(data).decode('utf-8')
DecodeBody(data) ==
    LET raw == urlsafe_b64decode(data)
    IN  IF raw.raise # None THEN raw ELSE Utf8Decode(raw.bytes, 1, << >>)

(***************************************************************************)
(* get_sent_email_details: the details of one fetched message              *)
(***************************************************************************)
\* d[k] = v on a dict.
Put(d, k, v) == [x \in DOMAIN d \cup {k} |-> IF x = k THEN v ELSE d[x]]

EmptyDict == [x \in {} |-> None]

\* An assignment that keeps a field once it is set.
SetFieldOnce(email_data, k, v) ==
    IF k \in DOMAIN email_data THEN email_data ELSE Put(email_data, k, v)

\* email_data[k] = v
SetField(email_data, k, v) == Put(email_data, k, v)

\* The loop over headers: every To, Subject or Date header assigns its field.
RECURSIVE HeaderLoop(_, _, _)
HeaderLoop(headers, i, email_data) ==
    IF i > Len(headers) THEN [raise |-> None, email_data |-> email_data]
    ELSE
      LET header == headers[i]
      IN  IF "name" \notin DOMAIN header THEN Raise("KeyError", "'name'")
          ELSE IF header.name \in {"To", "Subject", "Date"}
               /\ "value" \notin DOMAIN header
          THEN Raise("KeyError", "'value'")
          ELSE IF header.name = "To"
          THEN HeaderLoop(headers, i + 1,
                          SetField(email_data, "to", header.value))
          ELSE IF header.name = "Subject"
          THEN HeaderLoop(headers, i + 1,
                          SetField(email_data, "subject", header.value))
          ELSE IF header.name = "Date"
          THEN HeaderLoop(headers, i + 1,
                          SetField(email_data, "date", header.value))
          ELSE HeaderLoop(headers, i + 1, email_data)

\* The loop over the parts without its break: every text/plain part is
\* decoded and the last one stays.
RECURSIVE PartsLoopNoBreak(_, _, _)
PartsLoopNoBreak(parts, i, email_data) ==
    IF i > Len(parts) THEN [raise |-> None, email_data |-> email_data]
    ELSE
      LET part == parts[i]
      IN  IF part.mimeType = "text/plain" /\ "data" \in DOMAIN part.body
             /\ DecodeBody(part.body.data).raise = None
          THEN PartsLoopNoBreak(parts, i + 1,
                   Put(email_data, "message", DecodeBody(part.body.data).text))
          ELSE PartsLoopNoBreak(parts, i + 1, email_data)

\* The loop over payload['parts']: the first text/plain part is decoded into
\* the message field and the loop breaks.
RECURSIVE PartsLoop(_, _, _)
PartsLoop(parts, i, email_data) ==
    IF i > Len(parts) THEN [raise |-> None, email_data |-> email_data]
    ELSE
      LET part == parts[i]
      IN  IF "mimeType" \notin DOMAIN part THEN Raise("KeyError", "'mimeType'")
          ELSE IF part.mimeType = "text/plain"
          THEN IF "body" \notin DOMAIN part THEN Raise("KeyError", "'body'")
               ELSE IF "data" \notin DOMAIN part.body
               THEN Raise("KeyError", "'data'")
               ELSE
                 LET decoded_message == DecodeBody(part.body.data)
                 IN  IF decoded_message.raise # None THEN decoded_message
                     ELSE [raise |-> None,
                           email_data |->
                               Put(email_data, "message", decoded_message.text)]
          ELSE PartsLoop(parts, i + 1, email_data)

\* Lines 122-141 on one message: email_data, or the exception raised.
ExtractDetails(msg) ==
    IF "payload" \notin DOMAIN msg THEN Raise("KeyError", "'payload'")
    ELSE IF "headers" \notin DOMAIN msg.payload
    THEN Raise("KeyError", "'headers'")
    ELSE
      LET h == HeaderLoop(msg.payload.headers, 1, EmptyDict)
      IN  IF h.raise # None THEN h
          ELSE IF "parts" \in DOMAIN msg.payload
          THEN PartsLoop(msg.payload.parts, 1, h.email_data)
          ELSE h

(***************************************************************************)
(* Bounds and inputs                                                       *)
(***************************************************************************)
\* Listing pages a terminating provider serves per listing run, at most.
MaxPages == 3
\* Items on one listing page, at most.
MaxPageSize == 2

\* Items a terminating provider lists in one listing run, at most.
MaxItems == 2

\* The identifiers of a listing's result set, in listing order.
IdNames == << "m1", "m2", "m3", "m4", "m5", "m6" >>
\* The non-empty cursors a terminating provider hands out, page after page.
TokenNames == << "t1", "t2", "t3", "t4", "t5", "t6" >>

EmailArgs == {"", "u@example.com"}

D_2024_01_01 == << "2", "0", "2", "4", "-", "0", "1", "-", "0", "1" >>
D_2024_01_31 == << "2", "0", "2", "4", "-", "0", "1", "-", "3", "1" >>
D_2024_02_30 == << "2", "0", "2", "4", "-", "0", "2", "-", "3", "0" >>
D_9999_12_31 == << "9", "9", "9", "9", "-", "1", "2", "-", "3", "1" >>

\* The start and end parameters the requests carry.
StartArgs == { << >>, D_2024_01_31, D_2024_02_30 }
EndArgs == { << >>, D_2024_01_01, D_2024_01_31, D_9999_12_31 }

\* request.args with the keys that are present.
MkArgs(pe, e, ps, s, pn, n) ==
    [k \in (IF pe THEN {"email"} ELSE {}) \cup (IF ps THEN {"start"} ELSE {})
           \cup (IF pn THEN {"end"} ELSE {})
       |-> IF k = "email" THEN e ELSE IF k = "start" THEN s ELSE n]

\* The test with only absent parameters counting, empty ones passing.
ParamsAbsent(a) == {"email", "start", "end"} \ DOMAIN a # {}

\* not email or not start_date or not end_date
ParamsMissing(a) ==
    \/ "email" \notin DOMAIN a \/ a.email = ""
    \/ "start" \notin DOMAIN a \/ a.start = << >>
    \/ "end" \notin DOMAIN a \/ a["end"] = << >>

\* What get_workspace_credentials and build raise when they fail.
CredentialErrors ==
    { Raise("FileNotFoundError", "No such file: workspace_service_account.json"),
      Raise("JSONDecodeError", "Expecting value: line 1 column 1 (char 0)") }

\* What a failing provider call raises.
ProviderErrors == { Raise("HttpError", "<HttpError 403: delegation denied>") }

\* The exception classes that derive from ValueError.
ValueErrors ==
    {"ValueError", "JSONDecodeError", "binascii.Error", "UnicodeDecodeError"}

\* The except clauses of the two handlers: ValueError first, then Exception.
ErrorResponse(e) ==
    IF e.raise \in ValueErrors
    THEN [status |-> 400, body |-> [error |-> << e.msg >>]]
    ELSE [status |-> 500,
          body |-> [error |-> << "Failed to fetch Gmail data: ", e.raise >>]]

MissingResponse ==
    [status |-> 400, body |-> [error |-> << "Missing email or date parameters" >>]]

\* sent_q and received_q of the handlers; the direct helper calls pass date_q.
Query(r, dq) ==
    IF r \in {"sent", "details"} THEN dq \o << " label:sent" >>
    ELSE IF r = "received"
    THEN dq \o << " label:inbox -label:sent -label:drafts -label:spam -label:trash -from:me" >>
    ELSE dq

\* The response field that holds the items of a listing.
ItemsKey(r) == IF r = "threads" THEN "threads" ELSE "messages"

\* resp.get(key, [])
Items(r, key) == IF key \in DOMAIN r THEN r[key] ELSE << >>

\* resp.get('nextPageToken')
NextPageToken(r) ==
    IF "nextPageToken" \in DOMAIN r THEN r.nextPageToken ELSE None

\* not page_token
NoToken(t) == t = None \/ t = ""

\* The listing responses of the provider after it has listed `listed` items
\* of the result set: the next n of them, under a key that may be absent
\* when there are none, and a cursor that may be absent or empty.
ListResponses(key, listed, sizes, cursors) ==
    UNION { { [k \in (IF hasItems THEN {key} ELSE {})
                     \cup (IF cur = None THEN {} ELSE {"nextPageToken"})
                 |-> IF k = key
                     THEN [j \in 1..n |-> [id |-> IdNames[listed + j]]]
                     ELSE cur]
              : hasItems \in (IF n = 0 THEN BOOLEAN ELSE {TRUE}),
                cur \in cursors }
            : n \in sizes }

Min(a, b) == IF a < b THEN a ELSE b

RECURSIVE SumSizes(_, _, _)
SumSizes(ps, r, key) ==
    IF ps = << >> THEN 0
    ELSE (IF ps[1].run = r THEN Len(Items(ps[1].resp, key)) ELSE 0)
         + SumSizes(Tail(ps), r, key)

\* The pages served to listing run r.
PagesOf(r) == SelectSeq(pages, LAMBDA p : p.run = r)

\* What a terminating provider may answer to the next listing call of run r.
TerminatingResponses(r) ==
    LET key    == ItemsKey(r)
        listed == SumSizes(pages, r, key)
        more   == Len(PagesOf(r)) + 1 < MaxPages
    IN  ListResponses(key, listed,
                      0..Min(MaxPageSize, MaxItems - listed),
                      {None, ""} \cup (IF more
                                       THEN {TokenNames[Len(PagesOf(r)) + 1]}
                                       ELSE {}))

\* The messages the provider returns to a get call.
Hdr(n, v) == [name |-> n, value |-> v]
TextPart(mime, data) == [mimeType |-> mime, body |-> [data |-> data]]

B64_hi == << "a", "G", "k", "=" >>
B64_yo == << "e", "W", "8", "=" >>
B64_ff == << "_", "w", "=", "=" >>

M_full ==
    [payload |-> [headers |-> << Hdr("To", "a@x"), Hdr("Subject", "S"),
                                Hdr("Date", "D") >>,
                  parts |-> << TextPart("text/html", B64_yo),
                               TextPart("text/plain", B64_hi) >>]]
M_bare == [payload |-> [headers |-> << Hdr("From", "me@x") >>]]
M_undecodable ==
    [payload |-> [headers |-> << Hdr("To", "b@y") >>,
                  parts |-> << TextPart("text/plain", B64_ff) >>]]
M_attachment ==
    [payload |-> [headers |-> << Hdr("Subject", "T") >>,
                  parts |-> << [mimeType |-> "text/plain",
                                body |-> [attachmentId |-> "att1"]] >>]]

SampleMessages == { M_full, M_bare, M_undecodable, M_attachment }

(***************************************************************************)
(* The handlers                                                            *)
(***************************************************************************)
Init ==
    /\ entry = "none"
    /\ args = EmptyDict
    /\ pc = "idle"
    /\ date_q = << >>
    /\ run = "none"
    /\ total = 0
    /\ page_token = None
    /\ resp = EmptyDict
    /\ pending = << >>
    /\ message = EmptyDict
    /\ email_details = << >>
    /\ sent_count = 0
    /\ ret = [raise |-> None]
    /\ response = [status |-> 0]
    /\ calls = << >>
    /\ pages = << >>
    /\ fetched = << >>
    /\ printed = << >>
    /\ raised = [origin |-> "none", raise |-> None]

\* An exception e raised at `origin` leaves the try block: the handler's
\* except clauses answer it, a directly called helper lets it propagate.
Abort(origin, e) ==
    /\ raised' = [origin |-> origin, raise |-> e.raise, msg |-> e.msg]
    /\ pc' = "done"
    /\ IF entry \in {"dashboard", "sent_details"}
       THEN response' = ErrorResponse(e) /\ ret' = ret
       ELSE ret' = e /\ response' = response

\* dashboard() and sent_details() up to the parameter check.
Request ==
    /\ pc = "idle"
    /\ \E route \in {"dashboard", "sent_details"},
          pe \in BOOLEAN, e \in EmailArgs,
          ps \in BOOLEAN, s \in StartArgs, pn \in BOOLEAN, n \in EndArgs :
         /\ entry' = route
         /\ args' = MkArgs(pe, e, ps, s, pn, n)
         /\ IF ParamsMissing(args')
            THEN /\ response' = MissingResponse
                 /\ pc' = "done"
            ELSE /\ response' = response
                 /\ pc' = "creds"
    /\ UNCHANGED << date_q, run, total, page_token, resp, pending, message,
                    email_details, sent_count, ret, calls, pages, fetched,
                    printed, raised >>

\* get_workspace_credentials(email) and build(...).
Credentials ==
    /\ pc = "creds"
    /\ \/ /\ pc' = "date"
          /\ UNCHANGED << response, ret, raised >>
       \/ \E e \in CredentialErrors : Abort("credentials", e)
    /\ UNCHANGED << entry, args, date_q, run, total, page_token, resp, pending,
                    message, email_details, sent_count, calls, pages, fetched,
                    printed >>

\* date_q = build_date_query(start_date, end_date), and the entry into the
\* first listing helper with its fresh locals.
BuildQuery ==
    /\ pc = "date"
    /\ \E libc \in Libcs :
         LET q == build_date_query(args.start, args["end"], libc)
         IN  IF q.raise # None
             THEN /\ Abort("date", q)
                  /\ UNCHANGED << date_q, run >>
             ELSE /\ date_q' = q.value
                  /\ run' = IF entry = "dashboard" THEN "sent" ELSE "details"
                  /\ pc' = "list"
                  /\ UNCHANGED << response, ret, raised >>
    /\ total' = 0
    /\ page_token' = None
    /\ email_details' = << >>
    /\ UNCHANGED << entry, args, resp, pending, message, sent_count, calls,
                    pages, fetched, printed >>

\* The listing runs that count: count_messages for the sent and the received
\* query, count_messages_by_thread and count_messages called directly.
CountRuns == {"sent", "received", "threads", "count"}

\* The listing call of run r with the current page_token.
ListCall(r, ok) ==
    [api |-> IF r = "threads" THEN "threads.list" ELSE "messages.list",
     run |-> r, q |-> Query(r, date_q), pageToken |-> page_token, ok |-> ok]

\* total = count: the page's count in place of the running total.
AccumulateLast(t, count) == count

\* total += count
Accumulate(t, count) == t + count

\* A cursor that is kept once it is set.
NextCursorStale(r, old) == IF old = None THEN NextPageToken(r) ELSE old

\* page_token = resp.get('nextPageToken')
NextCursor(r, old) == NextPageToken(r)

\* return total, back in the caller: dashboard goes on to the received
\* count or answers, a direct call hands the value back.
ReturnCount(value, tok) ==
    IF entry = "dashboard" /\ run = "sent"
    THEN /\ sent_count' = value
         /\ run' = "received"
         /\ total' = 0
         /\ page_token' = None
         /\ pc' = "list"
         /\ UNCHANGED << response, ret >>
    ELSE /\ total' = value
         /\ page_token' = tok
         /\ pc' = "done"
         /\ UNCHANGED << sent_count, run >>
         /\ IF entry = "dashboard"
            THEN /\ response' =
                      [status |-> 200,
                       body |-> [sent |-> sent_count, received |-> value,
                                 date_range |->
                                     args.start \o << " to " >> \o args["end"]]]
                 /\ ret' = ret
            ELSE /\ ret' = [raise |-> None, value |-> value]
                 /\ response' = response

\* One pass of the while loop of count_messages / count_messages_by_thread:
\* the listing call, the accumulation, the print, the cursor, and the return
\* when the cursor is missing.  With `keep` the step is entered in the
\* histories (calls, pages, printed).
CountPage(responses, keep) ==
    /\ pc = "list"
    /\ run \in CountRuns
    /\ \/ \E e \in ProviderErrors :
            /\ calls' = IF keep THEN Append(calls, ListCall(run, FALSE))
                        ELSE calls
            /\ Abort("list", e)
            /\ UNCHANGED << run, total, page_token, resp, sent_count, pages,
                            printed >>
       \/ \E r \in responses :
            LET count    == Len(Items(r, ItemsKey(run)))
                newTotal == Accumulate(total, count)
                tok      == NextCursor(r, page_token)
            IN  /\ calls' = IF keep THEN Append(calls, ListCall(run, TRUE))
                            ELSE calls
                /\ resp' = r
                /\ pages' = IF keep
                            THEN Append(pages, [run |-> run, resp |-> r])
                            ELSE pages
                /\ printed' = IF keep
                              THEN Append(printed,
                                          [run |-> run, count |-> count,
                                           total |-> newTotal])
                              ELSE printed
                /\ raised' = raised
                /\ IF NoToken(tok)
                   THEN ReturnCount(newTotal, tok)
                   ELSE /\ total' = newTotal
                        /\ page_token' = tok
                        /\ UNCHANGED << pc, run, sent_count, response, ret >>
    /\ UNCHANGED << entry, args, date_q, pending, message, email_details,
                    fetched >>

\* An append that drops a record without fields.
AppendRecordNonEmpty(details, email_data) ==
    IF DOMAIN email_data = {} THEN details ELSE Append(details, email_data)

\* email_details.append(email_data)
AppendRecord(details, email_data) == Append(details, email_data)

\* Lines 143-147 once the messages of resp are done: the cursor, and the
\* return of `details` to sent_details when it is missing.
EndOfPage(details) ==
    LET tok == NextCursor(resp', page_token)
    IN  /\ page_token' = tok
        /\ raised' = raised
        /\ ret' = ret
        /\ IF NoToken(tok)
           THEN /\ pc' = "done"
                /\ response' = [status |-> 200,
                                body |-> [email_details |-> details]]
           ELSE /\ pc' = "list"
                /\ response' = response

\* One listing call of get_sent_email_details.
DetailsPage(responses) ==
    /\ pc = "list"
    /\ run = "details"
    /\ \/ \E e \in ProviderErrors :
            /\ calls' = Append(calls, ListCall(run, FALSE))
            /\ Abort("list", e)
            /\ UNCHANGED << page_token, resp, pending, pages >>
       \/ \E r \in responses :
            /\ calls' = Append(calls, ListCall(run, TRUE))
            /\ resp' = r
            /\ pages' = Append(pages, [run |-> run, resp |-> r])
            /\ pending' = Items(r, "messages")
            /\ IF pending' = << >>
               THEN EndOfPage(email_details)
               ELSE /\ pc' = "get"
                    /\ UNCHANGED << page_token, response, ret, raised >>
    /\ UNCHANGED << entry, args, date_q, run, total, message, email_details,
                    sent_count, fetched, printed >>

\* The lenient handling of a failed get: the item is skipped and the loop
\* goes on.
GetFailedSkip(e) ==
    /\ pending' = Tail(pending)
    /\ resp' = resp
    /\ UNCHANGED << message, fetched, email_details >>
    /\ IF pending' = << >>
       THEN EndOfPage(email_details)
       ELSE UNCHANGED << pc, page_token, response, ret, raised >>

\* messages().get(...).execute() raises e: nothing catches it below the
\* handler.
GetFailed(e) ==
    /\ Abort("get", e)
    /\ UNCHANGED << message, fetched, email_details, pending, page_token,
                    resp >>

\* The body of the for loop for the next message of resp: the get call, the
\* extraction and the append; after the last message, the end of the page.
GetMessage ==
    /\ pc = "get"
    /\ \/ \E e \in ProviderErrors :
            /\ calls' = Append(calls, [api |-> "messages.get", run |-> run,
                                       id |-> pending[1].id, ok |-> FALSE])
            /\ GetFailed(e)
       \/ \E m \in SampleMessages :
            LET d == ExtractDetails(m)
            IN  /\ calls' = Append(calls, [api |-> "messages.get", run |-> run,
                                           id |-> pending[1].id, ok |-> TRUE])
                /\ message' = m
                /\ fetched' = Append(fetched, m)
                /\ resp' = resp
                /\ IF d.raise # None
                   THEN /\ Abort("extract", d)
                        /\ UNCHANGED << email_details, pending, page_token >>
                   ELSE /\ email_details' =
                              AppendRecord(email_details, d.email_data)
                        /\ pending' = Tail(pending)
                        /\ IF pending' = << >>
                           THEN EndOfPage(email_details')
                           ELSE UNCHANGED << pc, page_token, response, ret,
                                             raised >>
    /\ UNCHANGED << entry, args, date_q, run, total, sent_count, pages,
                    printed >>

\* count_messages_by_thread(service, 'me', query) called on its own.
CallCountMessagesByThread ==
    /\ pc = "idle"
    /\ entry' = "count_messages_by_thread"
    /\ run' = "threads"
    /\ date_q' = << "label:inbox" >>
    /\ total' = 0
    /\ page_token' = None
    /\ pc' = "list"
    /\ UNCHANGED << args, resp, pending, message, email_details, sent_count,
                    ret, response, calls, pages, fetched, printed, raised >>

CountStep == CountPage(TerminatingResponses(run), TRUE)

DetailsStep == DetailsPage(TerminatingResponses(run))

Next ==
    \/ Request
    \/ Credentials
    \/ BuildQuery
    \/ CallCountMessagesByThread
    \/ CountStep
    \/ DetailsStep
    \/ GetMessage

Spec == Init /\ [][Next]_vars

(***************************************************************************)
(* build_date_query on its own                                             *)
(***************************************************************************)
YearTexts ==
    { << "2", "0", "2", "4" >>, << "2", "0", "2", "3" >>,
      << "1", "9", "0", "0" >>, << "0", "9", "9", "9" >>,
      << "9", "9", "9", "9" >>, << "0", "0", "0", "0" >>, << "2", "4" >> }
MonthTexts ==
    { << "0", "1" >>, << "0", "2" >>, << "0", "4" >>, << "1", "2" >>,
      << "2" >>, << "1", "3" >> }
DayTexts ==
    { << "0", "1" >>, << "2", "8" >>, << "2", "9" >>, << "3", "0" >>,
      << "3", "1" >>, << "3", "2" >>, << "1" >> }

DateTexts(Y, M, D) ==
    { y \o << "-" >> \o m \o << "-" >> \o d : y \in Y, m \in M, d \in D }

StartTexts ==
    DateTexts({ << "2", "0", "2", "4" >>, << "0", "9", "9", "9" >>,
                << "9", "9", "9", "9" >> },
              { << "0", "1" >>, << "1", "2" >>, << "2" >> },
              { << "0", "1" >>, << "3", "1" >>, << "3", "2" >> })
EndTexts == DateTexts(YearTexts, MonthTexts, DayTexts)

InitDate ==
    /\ entry = "build_date_query"
    /\ \E s \in StartTexts, e \in EndTexts :
         args = MkArgs(FALSE, "", TRUE, s, TRUE, e)
    /\ pc = "date"
    /\ date_q = << >>
    /\ run = "none"
    /\ total = 0
    /\ page_token = None
    /\ resp = EmptyDict
    /\ pending = << >>
    /\ message = EmptyDict
    /\ email_details = << >>
    /\ sent_count = 0
    /\ ret = [raise |-> None]
    /\ response = [status |-> 0]
    /\ calls = << >>
    /\ pages = << >>
    /\ fetched = << >>
    /\ printed = << >>
    /\ raised = [origin |-> "none", raise |-> None]

\* build_date_query(start, end) called on its own.
CallBuildDateQuery ==
    /\ pc = "date"
    /\ entry = "build_date_query"
    /\ \E libc \in Libcs :
         ret' = build_date_query(args.start, args["end"], libc)
    /\ pc' = "done"
    /\ UNCHANGED << entry, args, date_q, run, total, page_token, resp, pending,
                    message, email_details, sent_count, response, calls,
                    pages, fetched, printed, raised >>

NextDate == CallBuildDateQuery

DateSpec == InitDate /\ [][NextDate]_vars

(***************************************************************************)
(* The extraction of one message on its own                                *)
(***************************************************************************)
\* Headers per message, at most.
MaxHeaders == 2
\* Body parts per message, at most.
MaxParts == 2

RECURSIVE SeqsUpTo(_, _)
SeqsUpTo(S, n) ==
    IF n = 0 THEN { << >> }
    ELSE LET shorter == SeqsUpTo(S, n - 1)
         IN  shorter \cup
             { Append(q, x) : q \in { t \in shorter : Len(t) = n - 1 }, x \in S }

HeaderChoices ==
    { Hdr(n, v) : n \in {"To", "Subject", "Date", "to"}, v \in {"v1", "v2"} }
PartChoices ==
    { TextPart(mime, data) : mime \in {"text/plain", "text/html"},
                             data \in {B64_hi, B64_yo} }
    \cup { [mimeType |-> "text/plain", body |-> [attachmentId |-> "att1"]] }

Messages ==
    { [payload |-> [headers |-> hs]] : hs \in SeqsUpTo(HeaderChoices, MaxHeaders) }
    \cup { [payload |-> [headers |-> hs, parts |-> ps]]
           : hs \in SeqsUpTo(HeaderChoices, MaxHeaders),
             ps \in SeqsUpTo(PartChoices, MaxParts) }

InitExtract ==
    /\ entry = "extract"
    /\ message \in Messages
    /\ pc = "get"
    /\ args = EmptyDict
    /\ date_q = << >>
    /\ run = "none"
    /\ total = 0
    /\ page_token = None
    /\ resp = EmptyDict
    /\ pending = << >>
    /\ email_details = << >>
    /\ sent_count = 0
    /\ ret = [raise |-> None]
    /\ response = [status |-> 0]
    /\ calls = << >>
    /\ pages = << >>
    /\ fetched = << >>
    /\ printed = << >>
    /\ raised = [origin |-> "none", raise |-> None]

\* Lines 122-141 applied to `message`.
Extract ==
    /\ pc = "get"
    /\ entry = "extract"
    /\ ret' = ExtractDetails(message)
    /\ pc' = "done"
    /\ UNCHANGED << entry, args, date_q, run, total, page_token, resp, pending,
                    message, email_details, sent_count, response, calls,
                    pages, fetched, printed, raised >>

NextExtract == Extract

ExtractSpec == InitExtract /\ [][NextExtract]_vars

(***************************************************************************)
(* count_messages against a provider that need not end the listing         *)
(***************************************************************************)
\* The total up to which the pages of a provider that never ends the
\* listing are followed.
MaxTotal == 5

\* The cursor of a provider that hands the same one out again and again.
EchoToken == "t1"

\* What a provider that need not end the listing may answer: any page, ending
\* the listing or carrying the same cursor once more.
EchoResponses(r) ==
    ListResponses(ItemsKey(r), 0, 0..Min(MaxPageSize, MaxTotal - total),
                  {None, "", EchoToken})

InitLoop ==
    /\ run \in {"count", "threads"}
    /\ entry = (IF run = "count" THEN "count_messages"
                ELSE "count_messages_by_thread")
    /\ pc = "list"
    /\ date_q = << "label:sent" >>
    /\ args = EmptyDict
    /\ total = 0
    /\ page_token = None
    /\ resp = EmptyDict
    /\ pending = << >>
    /\ message = EmptyDict
    /\ email_details = << >>
    /\ sent_count = 0
    /\ ret = [raise |-> None]
    /\ response = [status |-> 0]
    /\ calls = << >>
    /\ pages = << >>
    /\ fetched = << >>
    /\ printed = << >>
    /\ raised = [origin |-> "none", raise |-> None]

CountLoop == CountPage(EchoResponses(run), FALSE)

NextLoop == CountLoop

\* The interpreter always runs the next statement of the loop.
LoopSpec == InitLoop /\ [][NextLoop]_vars /\ WF_vars(NextLoop)

(***************************************************************************)
(* Properties                                                              *)
(***************************************************************************)
Routes == {"dashboard", "sent_details"}

RECURSIVE SumSeq(_)
SumSeq(q) == IF q = << >> THEN 0 ELSE q[1] + SumSeq(Tail(q))

\* The page sizes a1, ..., an the provider served to listing run r.
PageSizes(r) ==
    LET ps == SelectSeq(pages, LAMBDA p : p.run = r)
    IN  [i \in 1..Len(ps) |->
            IF "messages" \in DOMAIN ps[i].resp THEN Len(ps[i].resp.messages)
            ELSE IF "threads" \in DOMAIN ps[i].resp THEN Len(ps[i].resp.threads)
            ELSE 0]

\* The cursor of a page, "" for an absent or empty one.
CursorOf(p) ==
    IF "nextPageToken" \in DOMAIN p.resp THEN p.resp.nextPageToken ELSE ""

\* Listing run r has returned: exactly its last page lacks a cursor.
Completed(r) ==
    LET ps == SelectSeq(pages, LAMBDA p : p.run = r)
    IN  /\ ps # << >>
        /\ CursorOf(ps[Len(ps)]) = ""
        /\ \A i \in 1..(Len(ps) - 1) : CursorOf(ps[i]) # ""

ListCallCount(r) ==
    Cardinality({ i \in 1..Len(calls) :
                    calls[i].run = r /\ calls[i].api # "messages.get" })

PrintedOf(r) == SelectSeq(printed, LAMBDA l : l.run = r)

C2_Terminates == <>(pc = "done")

\* Dates as the claims read them: YYYY-MM-DD, ten characters.
IsCanonical(s) ==
    /\ Len(s) = 10
    /\ \A i \in {1, 2, 3, 4, 6, 7, 9, 10} : IsDigit(s[i])
    /\ s[5] = "-" /\ s[8] = "-"

Number(s, from, to) ==
    SumSeq([i \in 1..(to - from + 1) |->
               DigitVal(s[from + i - 1])
               * (CASE to - from + 1 - i = 0 -> 1 [] to - from + 1 - i = 1 -> 10
                    [] to - from + 1 - i = 2 -> 100 [] OTHER -> 1000)])

CalendarDate(s) == << Number(s, 1, 4), Number(s, 6, 7), Number(s, 9, 10) >>

CalendarLeap(y) == y % 400 = 0 \/ (y % 4 = 0 /\ y % 100 # 0)

CalendarDays(y) ==
    << 31, IF CalendarLeap(y) THEN 29 ELSE 28, 31, 30, 31, 30, 31, 31, 30, 31,
       30, 31 >>

OnCalendar(dt) ==
    /\ dt[1] \in 1..9999
    /\ dt[2] \in 1..12
    /\ dt[3] \in 1..CalendarDays(dt[1])[dt[2]]

\* The number of the day, counting 0001-01-01 as day 1.
Ordinal(dt) ==
    LET y == dt[1] - 1
    IN  365 * y + (y \div 4) - (y \div 100) + (y \div 400)
        + SumSeq(SubSeq(CalendarDays(dt[1]), 1, dt[2] - 1)) + dt[3]

\* A bound rendered as YYYY/MM/DD.
IsSlashed(s) ==
    /\ Len(s) = 10
    /\ \A i \in {1, 2, 3, 4, 6, 7, 9, 10} : IsDigit(s[i])
    /\ s[5] = "/" /\ s[8] = "/"

\* The filter q has the bounds after:lo before:hi, both as YYYY/MM/DD, lo
\* being `start` and hi the calendar day after `end`.
BoundsAre(q, start, end) ==
    /\ Len(q) = 22
    /\ q[1] = "after:"
    /\ q[12] = " before:"
    /\ IsSlashed(SubSeq(q, 2, 11))
    /\ IsSlashed(SubSeq(q, 13, 22))
    /\ CalendarDate(SubSeq(q, 2, 11)) = start
    /\ OnCalendar(CalendarDate(SubSeq(q, 13, 22)))
    /\ Ordinal(CalendarDate(SubSeq(q, 13, 22))) = Ordinal(end) + 1

ValidRange(a) ==
    /\ IsCanonical(a.start) /\ OnCalendar(CalendarDate(a.start))
    /\ IsCanonical(a["end"]) /\ OnCalendar(CalendarDate(a["end"]))
    /\ Ordinal(CalendarDate(a.start)) <= Ordinal(CalendarDate(a["end"]))

\* C3, as stated: for all valid calendar dates start <= end the filter's
\* lower bound is start and its upper bound the day after end, both as
\* YYYY/MM/DD.
C3_BoundsForAllValidDates ==
    (pc = "done" /\ entry = "build_date_query" /\ ValidRange(args)) =>
        /\ ret.raise = None
        /\ BoundsAre(ret.value, CalendarDate(args.start),
                     CalendarDate(args["end"]))

\* C3, amended: the same for start in year 1000 or later and end before
\* 9999-12-31, the last date there is.
C3_BoundsWithinRange ==
    (/\ pc = "done" /\ entry = "build_date_query" /\ ValidRange(args)
     /\ CalendarDate(args.start)[1] >= 1000
     /\ CalendarDate(args["end"]) # << 9999, 12, 31 >>) =>
        /\ ret.raise = None
        /\ BoundsAre(ret.value, CalendarDate(args.start),
                     CalendarDate(args["end"]))

C3_Witness ==
    /\ pc = "done"
    /\ entry = "build_date_query"
    /\ args.start = D_2024_01_01
    /\ IsCanonical(args["end"])
    /\ CalendarDate(args["end"]) = << 2024, 12, 31 >>
    /\ ret.raise = None
    /\ CalendarDate(SubSeq(ret.value, 13, 22)) = << 2025, 1, 1 >>

\* C4: in /dashboard and /sent_details only a date-validation failure is
\* answered 400 with its reason; every other failure inside the handler is
\* answered 500 with the exception's kind and never its message.
C4_OnlyDateErrorsAre400 ==
    (entry \in Routes /\ raised.raise # None) =>
        IF raised.origin = "date" /\ raised.raise = "ValueError"
        THEN response = [status |-> 400, body |-> [error |-> << raised.msg >>]]
        ELSE /\ response.status = 500
             /\ \A i \in 1..Len(response.body.error) :
                  response.body.error[i] # raised.msg
             /\ response.body.error[Len(response.body.error)] = raised.raise

\* The record key of a header name.
FieldOf(name) ==
    CASE name = "To" -> "to" [] name = "Subject" -> "subject"
      [] name = "Date" -> "date"

Occurrences(hs, name) == { i \in 1..Len(hs) : hs[i].name = name }

FirstOf(S) == CHOOSE i \in S : \A j \in S : i <= j
LastOf(S) == CHOOSE i \in S : \A j \in S : i >= j

Extracted == pc = "done" /\ entry = "extract" /\ ret.raise = None

\* C5, as stated: of several To, Subject or Date headers of the same name
\* the record holds the value of the first one in list order.
C5_FirstOccurrenceRecorded ==
    Extracted =>
        \A name \in {"To", "Subject", "Date"} :
            LET occ == Occurrences(message.payload.headers, name)
            IN  occ # {} =>
                  /\ FieldOf(name) \in DOMAIN ret.email_data
                  /\ ret.email_data[FieldOf(name)]
                       = message.payload.headers[FirstOf(occ)].value

\* C5, amended: the record holds the value of the last occurrence of the
\* name in list order; earlier headers of that name do not change it, and a
\* name that does not occur leaves its field out.
C5_LastOccurrenceRecorded ==
    Extracted =>
        \A name \in {"To", "Subject", "Date"} :
            LET occ == Occurrences(message.payload.headers, name)
            IN  IF occ = {} THEN FieldOf(name) \notin DOMAIN ret.email_data
                ELSE /\ FieldOf(name) \in DOMAIN ret.email_data
                     /\ ret.email_data[FieldOf(name)]
                          = message.payload.headers[LastOf(occ)].value

C5_Witness ==
    /\ Extracted
    /\ message.payload.headers = << Hdr("To", "v1"), Hdr("To", "v2") >>
    /\ ret.email_data.to = "v2"

\* C6: a failed remote call is the last call of the request: the request
\* ends there, and its response is the failure alone, without counts and
\* without detail records.
C6_AbortOnFirstFailure ==
    \A i \in 1..Len(calls) :
        ~ calls[i].ok =>
            /\ i = Len(calls)
            /\ pc = "done"
            /\ IF entry \in Routes
               THEN /\ response.status \in {400, 500}
                    /\ DOMAIN response.body = {"error"}
               ELSE ret.raise # None

C6_Witness ==
    /\ entry = "sent_details"
    /\ Len(calls) >= 3
    /\ calls[Len(calls)].api = "messages.get"
    /\ ~ calls[Len(calls)].ok
    /\ Len(email_details) >= 1
    /\ response.status = 500

\* The text of the payloads the messages carry.
TextOf(data) ==
    CASE data = B64_hi -> << 104, 105 >> [] data = B64_yo -> << 121, 111 >>

PlainParts(msg) ==
    IF "parts" \in DOMAIN msg.payload
    THEN { i \in 1..Len(msg.payload.parts) :
             msg.payload.parts[i].mimeType = "text/plain" }
    ELSE {}

\* C7: the message field is the decoded payload of the first text/plain
\* part and of no later part; without a parts field or a text/plain part the
\* record has no message field and nothing is raised.
C7_FirstPlainPartOnly ==
    (pc = "done" /\ entry = "extract") =>
        IF PlainParts(message) = {}
        THEN ret.raise = None /\ "message" \notin DOMAIN ret.email_data
        ELSE ret.raise = None =>
               /\ "message" \in DOMAIN ret.email_data
               /\ ret.email_data.message
                    = TextOf(message.payload.parts[FirstOf(PlainParts(message))]
                                 .body.data)

C7_Witness ==
    /\ Extracted
    /\ "parts" \in DOMAIN message.payload
    /\ message.payload.parts = << TextPart("text/plain", B64_hi),
                                  TextPart("text/plain", B64_yo) >>
    /\ ret.email_data.message = << 104, 105 >>

\* A parameter the request does not carry, or carries empty.
Lacks(a, k) ==
    \/ k \notin DOMAIN a
    \/ k = "email" /\ a[k] = ""
    \/ k # "email" /\ a[k] = << >>

\* C8: a request without email, start or end, or with an empty one, gets
\* 400 and the fixed body, and the handler ends there: no credentials, no
\* date query, no provider call.
C8_MissingParameters ==
    (entry \in Routes /\ \E k \in {"email", "start", "end"} : Lacks(args, k)) =>
        /\ pc = "done"
        /\ response = [status |-> 400,
                       body |-> [error |->
                                    << "Missing email or date parameters" >>]]
        /\ calls = << >>
        /\ date_q = << >>
        /\ raised.raise = None

C8_Witness ==
    /\ entry = "dashboard"
    /\ DOMAIN args = {"email", "start", "end"}
    /\ args.email = ""
    /\ args.start = D_2024_01_31
    /\ args["end"] = D_2024_01_31
    /\ response.status = 400

ListCalls(r) ==
    SelectSeq(calls, LAMBDA c : c.run = r /\ c.api # "messages.get")

PagesServed(r) == SelectSeq(pages, LAMBDA p : p.run = r)

\* C9: in every listing run the first call carries no cursor and every later
\* call carries the cursor of the response just before it in that run; so
\* the received count starts without a cursor whatever the sent count saw.
C9_CursorChain ==
    \A r \in {"sent", "received", "threads", "details"} :
        /\ Len(ListCalls(r)) <= Len(PagesServed(r)) + 1
        /\ \A k \in 1..Len(ListCalls(r)) :
             IF k = 1 THEN ListCalls(r)[k].pageToken = None
             ELSE /\ "nextPageToken" \in DOMAIN PagesServed(r)[k - 1].resp
                  /\ ListCalls(r)[k].pageToken
                       = PagesServed(r)[k - 1].resp.nextPageToken

C9_Witness ==
    /\ Len(ListCalls("sent")) = 2
    /\ ListCalls("sent")[2].pageToken = "t1"
    /\ Len(ListCalls("received")) = 2
    /\ ListCalls("received")[1].pageToken = None
    /\ ListCalls("received")[2].pageToken = "t1"

RECURSIVE ListedIds(_)
ListedIds(ps) ==
    IF ps = << >> THEN << >>
    ELSE (IF "messages" \in DOMAIN ps[1].resp
          THEN [j \in 1..Len(ps[1].resp.messages) |-> ps[1].resp.messages[j].id]
          ELSE << >>) \o ListedIds(Tail(ps))

\* The record of each message the provider returns.
RecordOf(m) ==
    CASE m = M_full -> [to |-> "a@x", subject |-> "S", date |-> "D",
                        message |-> << 104, 105 >>]
      [] m = M_bare -> [x \in {} |-> ""]

GetCalls == SelectSeq(calls, LAMBDA c : c.api = "messages.get")

====
